---- MODULE Spec2Model ----
(***************************************************************************)
(* The HTML event loop of the linter (lintHTMLTokens) and its position     *)
(* recovery index (walker).                                                *)
(*                                                                         *)
(* Text (documents, fragments, the paragraph buffer, block text) is a      *)
(* sequence of one-character strings.  Tag names, class names, attribute   *)
(* keys, scopes and format extensions are TLA+ strings.  Positions are     *)
(* 0-based, as in Go.                                                      *)
(***************************************************************************)
EXTENDS Integers, Sequences, FiniteSets, TLC

NL == "\n"
SP == " "
TAB == "\t"

\* unicode.IsSpace over the characters the model uses.
IsSpace(c) == c \in {SP, NL, TAB}

(***************************************************************************)
(* package strings                                                         *)
(***************************************************************************)

\* s[i:j]
Slice(s, i, j) == SubSeq(s, i + 1, j)

HasPrefixAt(s, sub, i) ==
    /\ i + Len(sub) <= Len(s)
    /\ \A k \in 1..Len(sub) : s[i + k] = sub[k]

\* strings.Index: the first position of sub in s, or -1.
First(hits) ==
    IF hits = {} THEN -1 ELSE CHOOSE i \in hits : \A j \in hits : i <= j

Index(s, sub) == First({i \in 0..(Len(s) - Len(sub)) : HasPrefixAt(s, sub, i)})

\* strings.Count(s, "\n")
CountNL(s) == Cardinality({k \in 1..Len(s) : s[k] = NL})

\* The number of (possibly overlapping) occurrences of sub in s.
Occurrences(s, sub) == {i \in 0..(Len(s) - Len(sub)) : HasPrefixAt(s, sub, i)}

RECURSIVE SplitFrom(_, _, _, _)
SplitFrom(s, sep, i, cur) ==
    IF i > Len(s) THEN <<cur>>
    ELSE IF s[i] = sep THEN <<cur>> \o SplitFrom(s, sep, i + 1, <<>>)
    ELSE SplitFrom(s, sep, i + 1, Append(cur, s[i]))

\* strings.Split(s, sep) for a one-character separator: n+1 pieces.
Split(s, sep) == SplitFrom(s, sep, 1, <<>>)

RECURSIVE FieldsFrom(_, _, _)
FieldsFrom(s, i, cur) ==
    IF i > Len(s) THEN (IF cur = <<>> THEN <<>> ELSE <<cur>>)
    ELSE IF IsSpace(s[i])
         THEN (IF cur = <<>> THEN <<>> ELSE <<cur>>) \o FieldsFrom(s, i + 1, <<>>)
         ELSE FieldsFrom(s, i + 1, Append(cur, s[i]))

\* strings.Fields: the maximal runs of non-space characters.
Fields(s) == FieldsFrom(s, 1, <<>>)

RECURSIVE TrimLeftSet(_, _)
TrimLeftSet(s, cut) ==
    IF s # <<>> /\ s[1] \in cut THEN TrimLeftSet(Tail(s), cut) ELSE s

RECURSIVE TrimRightSet(_, _)
TrimRightSet(s, cut) ==
    IF s # <<>> /\ s[Len(s)] \in cut
    THEN TrimRightSet(SubSeq(s, 1, Len(s) - 1), cut) ELSE s

\* strings.TrimSpace
TrimSpace(s) == TrimRightSet(TrimLeftSet(s, {SP, NL, TAB}), {SP, NL, TAB})

\* strings.TrimLeft(s, " ")
TrimLeft(s) == TrimLeftSet(s, {SP})

\* core.StringInSlice
StringInSlice(a, slice) == \E i \in 1..Len(slice) : slice[i] = a

(***************************************************************************)
(* core.Substitute(src, sub, char): the first occurrence of sub in src is  *)
(* overwritten by char, character for character, line breaks kept; the     *)
(* second result says whether sub was found.                               *)
(***************************************************************************)
MaskOf(sub, char) == [k \in 1..Len(sub) |-> IF sub[k] = NL THEN NL ELSE char]

SubstituteAt(src, sub, char, idx) ==
    IF idx < 0 THEN [s |-> src, found |-> FALSE]
    ELSE [s |-> Slice(src, 0, idx) \o MaskOf(sub, char)
                \o Slice(src, idx + Len(sub), Len(src)),
          found |-> TRUE]

Substitute(src, sub, char) == SubstituteAt(src, sub, char, Index(src, sub))

(***************************************************************************)
(* updateCtx, updateContext                                                *)
(***************************************************************************)
RECURSIVE SubstituteWords(_, _)
SubstituteWords(ctx, words) ==
    IF words = <<>> THEN ctx
    ELSE SubstituteWords(Substitute(ctx, Head(words), "@").s, Tail(words))

\* r: what Substitute made of the whole line s.
SubstituteLine(r, s) ==
    IF r.found THEN r.s ELSE SubstituteWords(r.s, Fields(s))

RECURSIVE SubstituteLines(_, _)
SubstituteLines(ctx, lines) ==
    IF lines = <<>> THEN ctx
    ELSE SubstituteLines(
             SubstituteLine(Substitute(ctx, Head(lines), "@"), Head(lines)),
             Tail(lines))

\* What is left of ctx when the span at idx is cut out of it.
CutAt(ctx, txt, idx) ==
    IF idx < 0 THEN ctx
    ELSE Slice(ctx, 0, idx) \o Slice(ctx, idx + Len(txt), Len(ctx))

\* An updateCtx that consumes by truncation: the first occurrence of txt is
\* cut out of the context instead of being overwritten.
updateCtxCut(ctx, txt) == CutAt(ctx, txt, Index(ctx, txt))

\* An updateCtx whose test of txt is inverted: nothing is ever overwritten.
updateCtxInverted(ctx, txt) ==
    IF txt = <<>> THEN SubstituteLines(ctx, Split(txt, NL)) ELSE ctx

\* Every call site passes html.TextToken, so only txt decides.
updateCtx(ctx, txt) ==
    IF txt # <<>> THEN SubstituteLines(ctx, Split(txt, NL)) ELSE ctx

RECURSIVE updateContext(_, _)
updateContext(ctx, queue) ==
    IF queue = <<>> THEN ctx
    ELSE updateContext(updateCtx(ctx, Head(queue)), Tail(queue))

(***************************************************************************)
(* html.Token: a type, the data (a tag name, or the text of a text or      *)
(* comment token) and the attributes of a tag.                             *)
(***************************************************************************)
StartTagToken == "StartTag"
EndTagToken == "EndTag"
SelfClosingTagToken == "SelfClosingTag"
TextToken == "Text"
CommentToken == "Comment"

StartTag(name, attrs) == [type |-> StartTagToken, data |-> name, attr |-> attrs]
EndTag(name) == [type |-> EndTagToken, data |-> name, attr |-> <<>>]
SelfClosingTag(name, attrs) ==
    [type |-> SelfClosingTagToken, data |-> name, attr |-> attrs]
Text(chars) == [type |-> TextToken, data |-> chars, attr |-> <<>>]
Comment(chars) == [type |-> CommentToken, data |-> chars, attr |-> <<>>]
Attr(k, v) == [key |-> k, val |-> v]

IsTag(tok) == tok.type \in {StartTagToken, EndTagToken, SelfClosingTagToken}

(***************************************************************************)
(* walker                                                                  *)
(***************************************************************************)
newWalker(content) ==
    [context |-> content, idx |-> 0, queue |-> <<>>, tagHistory |-> <<>>,
     activeTag |-> ""]

RECURSIVE LastWordPos(_, _, _)
LastWordPos(ctx, words, pos) ==
    IF words = <<>> THEN pos
    ELSE LastWordPos(ctx, Tail(words), Index(ctx, Head(words)))

\* p: the position of the whole line s in ctx.
LinePos(ctx, s, p) ==
    IF p < 0 THEN LastWordPos(ctx, Fields(s), p) ELSE p

RECURSIVE AdvancePos(_, _, _)
AdvancePos(ctx, lines, pos) ==
    IF lines = <<>> THEN pos
    ELSE AdvancePos(ctx, Tail(lines),
                    LinePos(ctx, Head(lines), Index(ctx, Head(lines))))

\* The line l of position pos, if there is a position and l is beyond idx.
LineBeyond(idx, pos, l) == IF pos >= 0 /\ l > idx THEN l ELSE -1

LineAt(w, pos) == LineBeyond(w.idx, pos, CountNL(Slice(w.context, 0, pos)))

\* An advance that reports the line found even when it is not beyond the
\* cursor.
advanceAnyLine(w, t) ==
    LineAt([w EXCEPT !.idx = -1], AdvancePos(w.context, Split(t, NL), 0))

advance(w, t) == LineAt(w, AdvancePos(w.context, Split(t, NL), 0))

\* A reset that leaves the tag history as it is.
resetKeepTags(w) ==
    [w EXCEPT !.context = updateContext(w.context, w.queue), !.queue = <<>>]

\* A reset that forgets to consume the queue.
resetKeepContext(w) == [w EXCEPT !.queue = <<>>, !.tagHistory = <<>>]

reset(w) ==
    [w EXCEPT !.context = updateContext(w.context, w.queue),
              !.queue = <<>>,
              !.tagHistory = <<>>]

\* An append that stores whatever advance reports, found or not.
appendAtAny(w, txt, pos) ==
    [w EXCEPT !.idx = pos, !.queue = Append(@, txt)]

appendAt(w, txt, pos) ==
    [w EXCEPT !.idx = IF pos > -1 THEN pos ELSE @, !.queue = Append(@, txt)]

append(w, txt) ==
    IF txt = <<>> THEN w ELSE appendAt(w, txt, advance(w, txt))

addTag(w, t) ==
    [w EXCEPT !.tagHistory = Append(@, t), !.activeTag = t]

\* core.NewLinedBlock
NewLinedBlock(ctx, text, scope, line) ==
    [context |-> ctx, text |-> text, scope |-> scope, line |-> line]

\* core.NewBlock: a Block with no recovered line.
NewBlock(ctx, text, scope) == NewLinedBlock(ctx, text, scope, -1)

\* A block that counts its line from the top of the document when its text
\* is not found, whatever the cursor.
blockAtFromTop(w, text, scope, pos) ==
    NewLinedBlock(w.context, text, scope, IF pos > -1 THEN pos ELSE 0)

blockAt(w, text, scope, pos) ==
    NewLinedBlock(w.context, text, scope,
                  IF pos # w.idx /\ pos > -1 THEN pos ELSE w.idx)

block(w, text, scope) == blockAt(w, text, scope, advance(w, text))

RECURSIVE replaceAttrs(_, _)
replaceAttrs(ctx, attrs) ==
    IF attrs = <<>> THEN ctx
    ELSE replaceAttrs(
             IF Head(attrs).key \in {"href", "id", "src"}
             THEN updateCtx(ctx, Head(attrs).val) ELSE ctx,
             Tail(attrs))

\* Only tag tokens carry attributes; the data of a text token is text.
replaceToks(w, tok) ==
    IF IsTag(tok) /\ tok.data \in {"img", "a", "p", "script"}
    THEN [w EXCEPT !.context = replaceAttrs(w.context, tok.attr)]
    ELSE w

(***************************************************************************)
(* The classification tables                                               *)
(***************************************************************************)
DefaultSkipTags == <<"script", "style", "pre", "figure">>
DefaultSkipClasses == <<"problematic", "pre">>

inlineTags ==
    <<"b", "big", "i", "small", "abbr", "acronym", "cite", "dfn", "em", "kbd",
      "strong", "a", "br", "img", "span", "sub", "sup", "code", "tt", "del">>

tagToScope ==
    [th |-> "text.table.header", td |-> "text.table.cell", li |-> "text.list",
     blockquote |-> "text.blockquote", strong |-> "strong", b |-> "strong",
     a |-> "link", em |-> "emphasis", i |-> "emphasis", code |-> "code"]

\* The heading pattern of the package (h1 to h6).
heading(tag) == tag \in {"h1", "h2", "h3", "h4", "h5", "h6"}

\* The characters of a tag or class name, for the comparisons of the text of
\* a text or comment token with a list of names.
Chars(name) ==
    CASE name = "pre" -> <<"p", "r", "e">>
      [] name = "style" -> <<"s", "t", "y", "l", "e">>
      [] name = "script" -> <<"s", "c", "r", "i", "p", "t">>
      [] name = "figure" -> <<"f", "i", "g", "u", "r", "e">>
      [] name = "div" -> <<"d", "i", "v">>
      [] OTHER -> <<name>>

(***************************************************************************)
(* State                                                                   *)
(***************************************************************************)
VARIABLES
    skipTags,     \* package variable skipTags
    skipClasses,  \* package variable skipClasses
    pc,           \* "idle": no pass runs; "loop": in the for loop; "done"
    f,            \* the core.File of the pass
    cfg,          \* l.Manager.Config of the pass
    z,            \* walker.z: the rendered HTML the tokenizer has not read yet,
                  \* as the set of tokens each position may hold
    loc,          \* the local variables of lintHTMLTokens
    walker,       \* the walker of the pass
    sink,         \* the Blocks handed to lintText and lintProse, in order
    last,         \* history: the latest loop iteration (its token, the walker
                  \* and the locals it started from, the Blocks it emitted,
                  \* the elements open before and after the token)
    npass,        \* the number of passes started
    consumed      \* history: the fragments a reset of this walker has consumed

vars == <<skipTags, skipClasses, pc, f, cfg, z, loc, walker, sink, last, npass,
          consumed>>

(***************************************************************************)
(* Helpers of lintHTMLTokens                                               *)
(***************************************************************************)
\* The class attribute is kept as the list strings.Split(attr, " ") yields:
\* the empty attribute is the one-element list of the empty name.
checkClasses(attr, ignore) ==
    \E k \in 1..Len(attr) : StringInSlice(attr[k], ignore)

RECURSIVE getAttribute(_, _)
getAttribute(attrs, key) ==
    IF attrs = <<>> THEN <<"">>
    ELSE IF Head(attrs).key = key THEN Head(attrs).val
    ELSE getAttribute(Tail(attrs), key)

RECURSIVE shouldBeSkippedFrom(_, _)
shouldBeSkippedFrom(tagHistory, i) ==
    IF i < 1 THEN FALSE
    ELSE IF tagHistory[i] = "span" THEN shouldBeSkippedFrom(tagHistory, i - 1)
    ELSE tagHistory[i] = "tt" /\ i # Len(tagHistory)

shouldBeSkipped(tagHistory, ext) ==
    IF ext = ".rst" THEN shouldBeSkippedFrom(tagHistory, Len(tagHistory))
    ELSE FALSE

\* The backtick, which a TLA+ string cannot hold: an apostrophe stands for it.
BACKTICK == "'"

codify(ext, text) ==
    IF ext = ".md" \/ ext = ".adoc" THEN <<BACKTICK>> \o text \o <<BACKTICK>>
    ELSE IF ext = ".rst"
    THEN <<BACKTICK, BACKTICK>> \o text \o <<BACKTICK, BACKTICK>>
    ELSE text

punct == {".", "?", "!", ",", ":", ";"}

\* The first rune of the empty text is no punctuation mark.
starter(txt, skip) == txt # <<>> /\ txt[1] \in punct /\ ~skip

\* masked: txt, or its delimited mask.
pad(txt, skip, inline, masked) ==
    IF inline /\ ~starter(txt, skip) THEN <<SP>> \o masked ELSE masked

clean(txt, ext, skip, skipClass, inline) ==
    [txt |-> pad(txt, skip, inline,
                 IF skip \/ skipClass
                 THEN codify(ext, Substitute(txt, txt, "*").s) ELSE txt),
     skip |-> IF skip \/ skipClass THEN FALSE ELSE skip]

\* html.UnescapeString over the entities the model's alphabet can spell.
RECURSIVE UnescapeString(_)
UnescapeString(s) ==
    IF s = <<>> THEN s
    ELSE IF HasPrefixAt(s, <<"&", "l", "t", ";">>, 0)
         THEN <<"<">> \o UnescapeString(Slice(s, 4, Len(s)))
    ELSE IF HasPrefixAt(s, <<"&", "g", "t", ";">>, 0)
         THEN <<">">> \o UnescapeString(Slice(s, 4, Len(s)))
    ELSE <<Head(s)>> \o UnescapeString(Tail(s))

\* walker.walk: the text of a token.  A tag's data is its name.
walkTxt(tok) ==
    IF IsTag(tok) THEN tok.data ELSE UnescapeString(TrimSpace(tok.data))

\* core.StringInSlice(txt, names) for the text of any token.
TxtInSlice(tok, txt, names) ==
    IF IsTag(tok) THEN StringInSlice(txt, names)
    ELSE \E k \in 1..Len(names) : Chars(names[k]) = txt

(***************************************************************************)
(* lintScope: the Block of a boundary, and the summary after it            *)
(***************************************************************************)
scopeOf(tag, ext) ==
    IF tag \in DOMAIN tagToScope THEN tagToScope[tag] \o ext
    ELSE "text.heading." \o tag \o ext

scopeMatch(tag) ==
    \/ tag \in DOMAIN tagToScope /\ ~StringInSlice(tag, inlineTags)
    \/ heading(tag)

\* The first tag of tags that decides a scope, or "" when none does.
RECURSIVE firstMatch(_)
firstMatch(tags) ==
    IF tags = <<>> THEN ""
    ELSE IF scopeMatch(Head(tags)) THEN Head(tags)
    ELSE firstMatch(Tail(tags))

\* tag: the tag that decides the scope, or "" for prose.
lintScopeAs(fl, state, txt, tag) ==
    IF tag = ""
    THEN [blocks |-> <<block(state, txt, "txt")>>,
          summary |-> fl.Summary \o txt \o <<SP>>]
    ELSE [blocks |-> <<block(state, TrimLeft(txt), scopeOf(tag, fl.RealExt))>>,
          summary |-> fl.Summary]

\* A lintScope that adds the text of every Block to the summary.
lintScopeSummaryAll(fl, state, txt, tags) ==
    [lintScopeAs(fl, state, txt, firstMatch(tags))
        EXCEPT !.summary = fl.Summary \o txt \o <<SP>>]

lintScopeFrom(fl, state, txt, tags) ==
    lintScopeAs(fl, state, txt, firstMatch(tags))

RECURSIVE Reverse(_)
Reverse(q) == IF q = <<>> THEN <<>> ELSE Reverse(Tail(q)) \o <<Head(q)>>

\* A lintScope that walks the tag history from the most recent tag.
lintScopeInnermost(fl, state, txt) ==
    lintScopeFrom(fl, state, txt, Reverse(state.tagHistory))

lintScope(fl, state, txt) == lintScopeFrom(fl, state, txt, state.tagHistory)

RECURSIVE altBlocks(_, _)
altBlocks(state, attrs) ==
    IF attrs = <<>> THEN <<>>
    ELSE (IF Head(attrs).key = "alt"
          THEN <<block(state, Head(attrs).val, "text.attr.alt")>> ELSE <<>>)
         \o altBlocks(state, Tail(attrs))

lintTags(state, tok) ==
    IF IsTag(tok) /\ tok.data = "img" THEN altBlocks(state, tok.attr) ELSE <<>>

(***************************************************************************)
(* One iteration of the for loop of lintHTMLTokens, for a token other than *)
(* the error token.  tags, classes: the package variables skipTags and     *)
(* skipClasses; l: the local variables, w: the walker, fl: the file.       *)
(* The result holds the Blocks the iteration hands to the sink, in order.  *)
(***************************************************************************)
\* double: the text is linted under the scope of its inline tag; fold: it is
\* written to the paragraph buffer, as c.txt.
textBranchAs(l, w, txt, skip0, double, fold, c) ==
    [l |-> [l EXCEPT !.skip = IF fold THEN c.skip ELSE skip0,
                     !.buf = IF fold THEN @ \o c.txt ELSE @],
     w |-> append(IF double THEN [w EXCEPT !.activeTag = ""] ELSE w, txt),
     blocks |-> IF double
                THEN <<NewBlock(updateContext(w.context, w.queue), txt,
                                tagToScope[w.activeTag])>>
                ELSE <<>>]

textBranchSkip(l, w, fl, txt, skipClass, skip0, double, fold) ==
    textBranchAs(l, w, txt, skip0, double, fold,
                 clean(txt, fl.NormedExt, skip0, skipClass, l.inline))

isDouble(w) ==
    w.activeTag \in DOMAIN tagToScope /\ StringInSlice(w.activeTag, inlineTags)

\* A text branch that lints the text of an inline scoped tag once: what
\* was linted under the tag's scope is not folded into the paragraph.
textBranchOnce(l, w, fl, txt, skipClass) ==
    textBranchSkip(l, w, fl, txt, skipClass,
                   l.skip \/ shouldBeSkipped(w.tagHistory, fl.NormedExt),
                   isDouble(w), ~l.inBlock /\ txt # <<>> /\ ~isDouble(w))

textBranch(l, w, fl, txt, skipClass) ==
    textBranchSkip(l, w, fl, txt, skipClass,
                   l.skip \/ shouldBeSkipped(w.tagHistory, fl.NormedExt),
                   isDouble(w), ~l.inBlock /\ txt # <<>>)

\* A chain that tests the suppressed mode first: a skip-tag start tag met
\* while suppressed leaves the mode.
branchOfToggle(tags, l, tok, txt) ==
    IF l.inBlock /\ TxtInSlice(tok, txt, tags) THEN "leave"
    ELSE IF tok.type = StartTagToken /\ TxtInSlice(tok, txt, tags) THEN "enter"
    ELSE IF tok.type = StartTagToken THEN "start"
    ELSE IF tok.type = EndTagToken /\ StringInSlice(txt, inlineTags) THEN "endInline"
    ELSE IF tok.type = CommentToken THEN "comment"
    ELSE IF tok.type = TextToken THEN "text"
    ELSE "none"

\* tags: the package variable skipTags as the iteration reads it.
branchOf(tags, l, tok, txt) ==
    IF tok.type = StartTagToken /\ TxtInSlice(tok, txt, tags) THEN "enter"
    ELSE IF l.inBlock /\ TxtInSlice(tok, txt, tags) THEN "leave"
    ELSE IF tok.type = StartTagToken THEN "start"
    ELSE IF tok.type = EndTagToken /\ StringInSlice(txt, inlineTags) THEN "endInline"
    ELSE IF tok.type = CommentToken THEN "comment"
    ELSE IF tok.type = TextToken THEN "text"
    ELSE "none"

\* The if/else-if chain, for the branch br it takes.
chain(br, l0, w, fl, txt) ==
    CASE br = "enter" ->
             [l |-> [l0 EXCEPT !.inBlock = TRUE], w |-> w, blocks |-> <<>>]
      [] br = "leave" ->
             [l |-> [l0 EXCEPT !.inBlock = FALSE], w |-> w, blocks |-> <<>>]
      [] br = "start" ->
             [l |-> [l0 EXCEPT !.inline = StringInSlice(txt, inlineTags),
                               !.skip = StringInSlice(txt, l0.skipped)],
              w |-> addTag(w, txt), blocks |-> <<>>]
      [] br = "endInline" ->
             [l |-> l0, w |-> [w EXCEPT !.activeTag = ""], blocks |-> <<>>]
      [] br = "text" -> textBranch(l0, w, fl, txt, l0.skipClass)
      [] OTHER -> [l |-> l0, w |-> w, blocks |-> <<>>]

\* The end of the iteration.  a: the locals, the walker and the Blocks after
\* the chain; boundary: the token is a block-level end tag; scoped: what
\* lintScope made of the buffer; w3: the walker after reset and replaceToks.
iterateEnd(a, fl, tok, boundary, comments, scoped, w3) ==
    [l |-> [a.l EXCEPT !.buf = IF boundary THEN <<>> ELSE @,
                       !.attr = getAttribute(tok.attr, "class")],
     w |-> w3,
     consumed |-> IF boundary THEN {a.w.queue[k] : k \in 1..Len(a.w.queue)}
                  ELSE {},
     fl |-> [fl EXCEPT !.Summary = scoped.summary, !.Comments = comments],
     blocks |-> a.blocks \o scoped.blocks \o lintTags(w3, tok)]

\* An end of the iteration that hands the buffer to lintScope at every
\* block-level end tag, blank or not.
iterateBoundaryAlways(a, fl, tok, txt, boundary, br) ==
    iterateEnd(a, fl, tok, boundary,
               IF br = "comment" THEN Append(fl.Comments, txt) ELSE fl.Comments,
               IF boundary
               THEN lintScope(fl, a.w, a.l.buf)
               ELSE [blocks |-> <<>>, summary |-> fl.Summary],
               replaceToks(IF boundary THEN reset(a.w) ELSE a.w, tok))

iterateBoundary(a, fl, tok, txt, boundary, br) ==
    iterateEnd(a, fl, tok, boundary,
               IF br = "comment" THEN Append(fl.Comments, txt) ELSE fl.Comments,
               IF boundary /\ TrimSpace(a.l.buf) # <<>>
               THEN lintScope(fl, a.w, a.l.buf)
               ELSE [blocks |-> <<>>, summary |-> fl.Summary],
               replaceToks(IF boundary THEN reset(a.w) ELSE a.w, tok))

iterateChain(l0, w, fl, tok, txt, br) ==
    iterateBoundary(chain(br, l0, w, fl, txt), fl, tok, txt,
                    tok.type = EndTagToken /\ ~StringInSlice(txt, inlineTags), br)

iterateTxt(tags, l0, w, fl, tok, txt) ==
    iterateChain(l0, w, fl, tok, txt, branchOf(tags, l0, tok, txt))

iterate(tags, classes, l, w, fl, tok) ==
    iterateTxt(tags, [l EXCEPT !.skipClass = checkClasses(l.attr, classes)],
               w, fl, tok, walkTxt(tok))

(***************************************************************************)
(* The pass: lintHTMLTokens                                                *)
(***************************************************************************)
NoConfig == [SkippedScopes |-> <<>>, IgnoredClasses |-> <<>>, IgnoredScopes |-> <<>>]

NoFile == [Content |-> <<>>, NormedExt |-> "", RealExt |-> "",
           Summary |-> <<>>, Comments |-> <<>>]

ZeroLocals ==
    [attr |-> <<"">>, inBlock |-> FALSE, inline |-> FALSE, skip |-> FALSE,
     skipClass |-> FALSE, buf |-> <<>>, skipped |-> <<"tt", "code">>]

\* The error token: the end of the input.
ErrorToken == [type |-> "Error", data |-> "", attr |-> <<>>]

NoToken == [type |-> "None", data |-> "", attr |-> <<>>, txt |-> "",
            w |-> newWalker(<<>>), l |-> ZeroLocals, blocks |-> <<>>,
            within |-> <<>>, open |-> <<>>]

\* History of the input: the elements open after tok, given those open
\* before it.  img and br have no end tag; an end tag closes the latest open
\* element of its name and what was opened inside it.
OpenAfter(open, tok) ==
    LET same == {k \in 1..Len(open) : open[k] = tok.data}
    IN  IF tok.type = StartTagToken /\ tok.data \notin {"img", "br"}
        THEN Append(open, tok.data)
        ELSE IF tok.type = EndTagToken /\ same # {}
        THEN SubSeq(open, 1, (CHOOSE k \in same : \A j \in same : j <= k) - 1)
        ELSE open

Init ==
    /\ skipTags = DefaultSkipTags
    /\ skipClasses = DefaultSkipClasses
    /\ pc = "idle"
    /\ f = NoFile
    /\ cfg = NoConfig
    /\ z = <<>>
    /\ loc = ZeroLocals
    /\ walker = newWalker(<<>>)
    /\ sink = <<>>
    /\ last = NoToken
    /\ npass = 0
    /\ consumed = {}

\* The number of passes one behaviour runs.
MaxPasses == 2

\* The call of lintHTMLTokens up to its loop: the tables are resolved from
\* the configuration and the walker is built.
\* in: [doc, ext, cfg, raw], raw being the rendered HTML: for each position
\* the tokens it may hold (ErrorToken: the input may end there).
StartPass(in) ==
    /\ pc \in {"idle", "done"}
    /\ npass < MaxPasses
    /\ npass' = npass + 1
    /\ skipTags' = IF Len(in.cfg.SkippedScopes) > 0 THEN in.cfg.SkippedScopes
                   ELSE skipTags
    /\ skipClasses' = IF Len(in.cfg.IgnoredClasses) > 0
                      THEN skipClasses \o in.cfg.IgnoredClasses ELSE skipClasses
    /\ loc' = [ZeroLocals EXCEPT
                 !.attr = <<"">>,
                 !.skipped = IF Len(in.cfg.IgnoredScopes) > 0
                             THEN in.cfg.IgnoredScopes ELSE <<"tt", "code">>]
    /\ f' = [Content |-> in.doc, NormedExt |-> in.ext, RealExt |-> in.ext,
             Summary |-> <<>>, Comments |-> <<>>]
    /\ cfg' = in.cfg
    /\ walker' = newWalker(in.doc)
    /\ z' = in.raw
    /\ sink' = <<>>
    /\ last' = NoToken
    /\ consumed' = {}
    /\ pc' = "loop"

\* r: what the iteration on tok makes of the state.
IterateTo(tok, r) ==
    /\ loc' = r.l
    /\ walker' = r.w
    /\ f' = r.fl
    /\ sink' = sink \o r.blocks
    /\ last' = [type |-> tok.type, data |-> tok.data, attr |-> tok.attr,
                txt |-> walkTxt(tok), w |-> walker, l |-> loc,
                blocks |-> r.blocks,
                within |-> last.open, open |-> OpenAfter(last.open, tok)]
    /\ consumed' = consumed \cup r.consumed

\* One iteration of the loop, on the next token of the tokenizer.
Iterate ==
    /\ pc = "loop"
    /\ z # <<>>
    /\ \E tok \in Head(z) \ {ErrorToken} :
         IterateTo(tok, iterate(skipTags, skipClasses, loc, walker, f, tok))
    /\ z' = Tail(z)
    /\ UNCHANGED <<skipTags, skipClasses, pc, cfg, npass>>

\* An end of the pass that leaves the raw Block out.
finalBlocksNoRaw(fl) ==
    <<NewBlock(fl.Content, fl.Summary, "summary." \o fl.RealExt)>>

\* The error token ends the loop: the summary and the raw Block follow.
finalBlocks(fl) ==
    <<NewBlock(fl.Content, fl.Summary, "summary." \o fl.RealExt),
      NewBlock(<<>>, fl.Content, "raw." \o fl.RealExt)>>

Finish ==
    /\ pc = "loop"
    /\ IF z = <<>> THEN TRUE ELSE ErrorToken \in Head(z)
    /\ loc' = [loc EXCEPT !.skipClass = checkClasses(loc.attr, skipClasses)]
    /\ sink' = sink \o finalBlocks(f)
    /\ last' = [type |-> ErrorToken.type, data |-> "", attr |-> <<>>, txt |-> "",
                w |-> walker, l |-> loc, blocks |-> finalBlocks(f),
                within |-> last.open, open |-> last.open]
    /\ z' = <<>>
    /\ pc' = "done"
    /\ UNCHANGED <<skipTags, skipClasses, f, cfg, walker, npass, consumed>>

(***************************************************************************)
(* Inputs                                                                  *)
(***************************************************************************)
\* All sequences over S of length at most n.
SeqsUpTo(S, n) == UNION {[1..k -> S] : k \in 0..n}

Input(doc, ext, c, raw) == [doc |-> doc, ext |-> ext, cfg |-> c, raw |-> raw]

\* <tag>text</tag>
Element(tag, text) == <<StartTag(tag, <<>>), Text(text), EndTag(tag)>>

\* The input that holds exactly the tokens toks.
Exactly(toks) == [k \in 1..Len(toks) |-> {toks[k]}]

\* The inputs of up to n tokens drawn from toks.
AnyOf(toks, n) == [k \in 1..n |-> toks \cup {ErrorToken}]

\* The line of position pos of s.
LineOf(s, pos) == CountNL(Slice(s, 0, pos))

(***************************************************************************)
(* Two identical headings: every document over a, b and the line break up  *)
(* to MaxDocLen characters, rendered as a heading, possibly a paragraph,   *)
(* and the same heading again.                                             *)
(***************************************************************************)
MaxDocLen == 5

HeadingDocs == SeqsUpTo({"a", "b", NL}, MaxDocLen)

HeadingTexts == {<<"a">>, <<"a", "b">>}

HeadingInputs ==
    {Input(doc, ".md", NoConfig,
           Exactly(Element("h2", t) \o mid \o Element("h2", t))) :
        doc \in HeadingDocs, t \in HeadingTexts,
        mid \in {<<>>, Element("p", <<"b">>)}}

NextHeadings ==
    \/ pc = "idle" /\ \E in \in HeadingInputs : StartPass(in)
    \/ Iterate
    \/ Finish

SpecHeadings == Init /\ [][NextHeadings]_vars

(***************************************************************************)
(* The walker driven directly: any sequence of append, addTag,             *)
(* replaceToks, block and reset calls on one walker, built over any        *)
(* document of up to MaxLines lines, each of them "b" or "a b".            *)
(***************************************************************************)
MaxLines == 2
MaxQueue == 2
MaxTags == 1

RECURSIVE JoinLines(_)
JoinLines(ls) ==
    IF ls = <<>> THEN <<>>
    ELSE IF Len(ls) = 1 THEN ls[1]
    ELSE ls[1] \o <<NL>> \o JoinLines(Tail(ls))

WalkerLines == {<<"b">>, <<"a", SP, "b">>}

WalkerDocs == {JoinLines(ls) : ls \in SeqsUpTo(WalkerLines, MaxLines)}

Fragments == {<<>>, <<"b">>, <<"a", SP, "b">>, <<"b", NL, "a">>}

AttrValues == {<<"a">>}

BlockTexts == {<<"a", SP, "b">>}

InitWalker ==
    /\ skipTags = DefaultSkipTags
    /\ skipClasses = DefaultSkipClasses
    /\ pc = "walker"
    /\ \E doc \in WalkerDocs :
          /\ f = [NoFile EXCEPT !.Content = doc]
          /\ walker = newWalker(doc)
    /\ cfg = NoConfig
    /\ z = <<>>
    /\ loc = ZeroLocals
    /\ sink = <<>>
    /\ last = NoToken
    /\ npass = 0
    /\ consumed = {}

WalkerFrame == UNCHANGED <<skipTags, skipClasses, pc, f, cfg, z, loc, last, npass>>

WAppend(t) ==
    /\ pc = "walker"
    /\ Len(walker.queue) < MaxQueue
    /\ walker' = append(walker, t)
    /\ sink' = <<>>
    /\ UNCHANGED consumed
    /\ WalkerFrame

WAddTag(t) ==
    /\ pc = "walker"
    /\ Len(walker.tagHistory) < MaxTags
    /\ walker' = addTag(walker, t)
    /\ sink' = <<>>
    /\ UNCHANGED consumed
    /\ WalkerFrame

WReplaceToks(tok) ==
    /\ pc = "walker"
    /\ walker' = replaceToks(walker, tok)
    /\ sink' = <<>>
    /\ UNCHANGED consumed
    /\ WalkerFrame

\* block leaves the walker as it is; sink holds the Block of the latest call
\* for as long as the walker is not touched.
WBlock(text, scope) ==
    /\ pc = "walker"
    /\ sink' = <<block(walker, text, scope)>>
    /\ UNCHANGED <<walker, consumed>>
    /\ WalkerFrame

WReset ==
    /\ pc = "walker"
    /\ walker' = reset(walker)
    /\ consumed' = consumed \cup {walker.queue[k] : k \in 1..Len(walker.queue)}
    /\ sink' = <<>>
    /\ WalkerFrame

NextWalker ==
    \/ \E t \in Fragments : WAppend(t)
    \/ WAddTag("p")
    \/ \E v \in AttrValues : WReplaceToks(StartTag("a", <<Attr("href", v)>>))
    \/ \E t \in BlockTexts : WBlock(t, "txt")
    \/ WReset

SpecWalker == InitWalker /\ [][NextWalker]_vars

(***************************************************************************)
(* C1                                                                      *)
(***************************************************************************)
HeadingBlocks == SelectSeq(sink, LAMBDA b : b.scope = "text.heading.h2.md")

ProseBlocks == SelectSeq(sink, LAMBDA b : b.scope = "txt")

\* The lines of the occurrences of t in the document of the pass.
LinesOf(t) == {LineOf(f.Content, p) : p \in Occurrences(f.Content, t)}

\* t occurs exactly twice in the document, on two different lines.
OccursOnTwoLines(t) ==
    /\ Cardinality(Occurrences(f.Content, t)) = 2
    /\ Cardinality(LinesOf(t)) = 2

SecondLine(t) == CHOOSE j \in LinesOf(t) : \A i \in LinesOf(t) : i <= j

\* What lies between the two headings is rendered in document order: its
\* text does not occur after the second heading.
MiddleInOrder(t) ==
    \A k \in 1..Len(ProseBlocks) :
        \A m \in LinesOf(ProseBlocks[k].text) : m <= SecondLine(t)

TwoHeadingsDone ==
    /\ pc = "done"
    /\ Len(HeadingBlocks) = 2
    /\ HeadingBlocks[1].text = HeadingBlocks[2].text
    /\ OccursOnTwoLines(HeadingBlocks[1].text)
    /\ MiddleInOrder(HeadingBlocks[1].text)

\* C1: when the same single-line text occurs on two lines i < j of the
\* document and is rendered as two headings in that order, the Block of the
\* second heading carries line j.
C1_SecondHeadingLine ==
    TwoHeadingsDone => HeadingBlocks[2].line = SecondLine(HeadingBlocks[1].text)

\* Both headings lie below the first line, a paragraph between them.
C1_Witness ==
    /\ TwoHeadingsDone
    /\ Len(ProseBlocks) = 1
    /\ HeadingBlocks[1].line = 1
    /\ HeadingBlocks[2].line = 3

(***************************************************************************)
(* C2                                                                      *)
(***************************************************************************)
OccursOnce(t) == Cardinality(Occurrences(f.Content, t)) = 1

SingleLine(t) == \A k \in 1..Len(t) : t[k] # NL

\* advance(t) reports a line only through its per-word search: t as a whole
\* is not in the context, and the line is that of the last word of t.
ByLastWord(t) ==
    /\ Index(walker.context, t) = -1
    /\ Fields(t) # <<>>
    /\ LET p == Index(walker.context, Fields(t)[Len(Fields(t))])
       IN  /\ p >= 0
           /\ advance(walker, t) = LineOf(walker.context, p)
           /\ LineOf(walker.context, p) > walker.idx

\* C2 as stated: a fragment that occurs once in the document and has been
\* appended and consumed by reset() is never found by advance() again.
C2_Original ==
    \A t \in consumed : OccursOnce(t) => advance(walker, t) = -1

\* C2, amended: a single-line fragment that occurs once in the document and
\* has been consumed is no longer in the context as a whole, and advance()
\* reports not-found for it unless its per-word search finds the last word
\* of the fragment on a line beyond the cursor.
C2_ConsumedNotFoundAsWhole ==
    \A t \in consumed :
        (SingleLine(t) /\ OccursOnce(t)) =>
            /\ Index(walker.context, t) = -1
            /\ advance(walker, t) = -1 \/ ByLastWord(t)

\* A consumed one-occurrence fragment, with a cursor that has moved and
\* other text left in the context.
C2_Witness ==
    /\ <<"a", SP, "b">> \in consumed
    /\ OccursOnce(<<"a", SP, "b">>)
    /\ walker.idx = 1
    /\ Index(walker.context, <<"b">>) >= 0
    /\ advance(walker, <<"a", SP, "b">>) = -1

\* The per-word search does find a consumed single-line fragment again.
C2_LastWordFound ==
    \E t \in consumed : SingleLine(t) /\ OccursOnce(t) /\ advance(walker, t) # -1

(***************************************************************************)
(* C3                                                                      *)
(***************************************************************************)
\* C3: over any sequence of append, addTag, replaceToks, block and reset
\* calls on one walker, the line cursor never decreases.
C3_CursorMonotonic == [][walker'.idx >= walker.idx]_vars

\* Two fragments appended to one block after an earlier block was consumed,
\* with the cursor off the first line.
C3_Witness ==
    /\ pc = "walker"
    /\ consumed # {}
    /\ Len(walker.queue) = 2
    /\ walker.idx >= 1

(***************************************************************************)
(* Scopes: every input of up to MaxScopeTokens tokens drawn from container, *)
(* list, blockquote and heading start tags, two texts and a block-level    *)
(* end tag.                                                                *)
(***************************************************************************)
MaxScopeTokens == 5

ScopeTokens ==
    {StartTag(t, <<>>) : t \in {"ul", "li", "p", "blockquote", "h2"}}
        \cup {Text(<<"a">>), Text(<<"b">>), EndTag("p")}

ScopeInputs ==
    {Input(<<"a", NL, "b">>, ".md", NoConfig, AnyOf(ScopeTokens, MaxScopeTokens))}

NextScope ==
    \/ pc = "idle" /\ \E in \in ScopeInputs : StartPass(in)
    \/ Iterate
    \/ Finish

SpecScope == Init /\ [][NextScope]_vars

(***************************************************************************)
(* C4                                                                      *)
(***************************************************************************)
\* The latest iteration was a block-level end tag over a non-blank buffer:
\* a Block was emitted for the boundary.
AtBoundary ==
    /\ pc = "loop"
    /\ last.type = EndTagToken
    /\ ~StringInSlice(last.txt, inlineTags)

BoundaryEmitted == AtBoundary /\ TrimSpace(last.l.buf) # <<>>

\* The places of the tag history whose tag decides a scope.
Qualifying(h) == {i \in 1..Len(h) : scopeMatch(h[i])}

Outermost(h) == CHOOSE i \in Qualifying(h) : \A j \in Qualifying(h) : i <= j
Innermost(h) == CHOOSE i \in Qualifying(h) : \A j \in Qualifying(h) : i >= j

C4_WitnessList ==
    /\ BoundaryEmitted
    /\ last.w.tagHistory = <<"ul", "li", "p">>
    /\ last.blocks[1].scope = "text.list.md"

(***************************************************************************)
(* Paragraphs: up to MaxParagraphs elements, each a start tag, a text and  *)
(* a block-level end tag, next to the inputs of SpecScope.                 *)
(***************************************************************************)
MaxParagraphs == 3

RECURSIVE Paragraphs(_)
Paragraphs(n) ==
    IF n = 0 THEN <<>>
    ELSE << {StartTag(t, <<>>) : t \in {"p", "li", "blockquote", "h2"}}
                \cup {ErrorToken},
            {Text(<<"a">>), Text(<<"b">>)},
            {EndTag("p")} >> \o Paragraphs(n - 1)

SummaryInputs ==
    ScopeInputs \cup {Input(<<"a", NL, "b">>, ".md", NoConfig, Paragraphs(MaxParagraphs))}

NextSummary ==
    \/ pc = "idle" /\ \E in \in SummaryInputs : StartPass(in)
    \/ Iterate
    \/ Finish

SpecSummary == Init /\ [][NextSummary]_vars

(***************************************************************************)
(* C8                                                                      *)
(***************************************************************************)
\* The Blocks of the pass but the two of its end.
ElementBlocks == IF pc = "done" THEN SubSeq(sink, 1, Len(sink) - 2) ELSE sink

ProseTexts ==
    LET prose == SelectSeq(ElementBlocks, LAMBDA b : b.scope = "txt")
    IN  [k \in 1..Len(prose) |-> prose[k].text]

ScopedBoundaryBlocks ==
    SelectSeq(ElementBlocks,
              LAMBDA b : b.scope \in {scopeOf(t, f.RealExt) :
                                        t \in {"li", "blockquote", "h2", "td", "th"}})

\* strings.Join(texts, " ")
RECURSIVE Join(_)
Join(texts) ==
    IF texts = <<>> THEN <<>>
    ELSE IF Len(texts) = 1 THEN texts[1]
    ELSE texts[1] \o <<SP>> \o Join(Tail(texts))

\* Every text followed by one space.
RECURSIVE EachWithSpace(_)
EachWithSpace(texts) ==
    IF texts = <<>> THEN <<>>
    ELSE texts[1] \o <<SP>> \o EachWithSpace(Tail(texts))

SummaryBlock == sink[Len(sink) - 1]

\* C8 as stated: the text of the summary Block is the text of the prose
\* boundary Blocks, in emission order, joined by single spaces.
C8_SpaceJoined ==
    pc = "done" => SummaryBlock.text = Join(ProseTexts)

\* C8, amended: the text of the summary Block is the text of the prose
\* boundary Blocks, in emission order, each followed by one space; the
\* Blocks of a heading, list or blockquote scope add nothing to it.
C8_EachFollowedBySpace ==
    pc = "done" => SummaryBlock.text = EachWithSpace(ProseTexts)

\* Two prose Blocks of different text around a scoped Block.
C8_Witness ==
    /\ pc = "done"
    /\ Len(ProseTexts) = 2
    /\ ProseTexts[1] # ProseTexts[2]
    /\ Len(ScopedBoundaryBlocks) = 1
    /\ SummaryBlock.text = ProseTexts[1] \o <<SP>> \o ProseTexts[2] \o <<SP>>

(***************************************************************************)
(* C9                                                                      *)
(***************************************************************************)
IsFinalScope(scope) ==
    scope \in {"summary." \o f.RealExt, "raw." \o f.RealExt}

\* A pass ends with exactly one summary Block followed by exactly one raw
\* Block that holds the whole document; they are the last two Blocks.
C9_EndsWithSummaryAndRaw ==
    pc = "done" =>
        /\ Len(sink) >= 2
        /\ sink[Len(sink) - 1].scope = "summary." \o f.RealExt
        /\ sink[Len(sink)].scope = "raw." \o f.RealExt
        /\ sink[Len(sink)].text = f.Content
        /\ \A k \in 1..(Len(sink) - 2) : ~IsFinalScope(sink[k].scope)

\* No Block is emitted once the pass has ended, and none of the two Blocks
\* is emitted before its end.
C9_NothingAfter ==
    [][/\ pc = "done" => sink' = sink
       /\ pc' = "loop" => \A k \in 1..Len(sink') : ~IsFinalScope(sink'[k].scope)]_vars

\* C9: every pass ends by emitting exactly one summary Block followed by
\* exactly one raw Block holding the whole document; they are the last two
\* Blocks of the pass and no Block is emitted after them.
C9_EndOfStream == [](C9_EndsWithSummaryAndRaw) /\ C9_NothingAfter

\* A pass over no token at all: the two Blocks are its only ones.
C9_Witness ==
    /\ pc = "done"
    /\ last.w = newWalker(f.Content)
    /\ Len(sink) = 2

\* A pass that emitted other Blocks before the two.
C9_WitnessAfterBlocks ==
    /\ pc = "done"
    /\ Len(sink) > 3
    /\ sink[Len(sink)].text = f.Content

(***************************************************************************)
(* Inline elements: every input of up to MaxInlineTokens tokens drawn from *)
(* the start tags of a link, a code span, a span and a pre block, a text,  *)
(* and the end tags of the code span and of a paragraph, in a Markdown, a  *)
(* reStructuredText and an HTML document.                                  *)
(***************************************************************************)
MaxInlineTokens == 5

InlineTokens ==
    {StartTag(t, <<>>) : t \in {"a", "code", "span", "pre"}}
        \cup {Text(<<"b">>), EndTag("code"), EndTag("p")}

InlineInputs ==
    {Input(<<"b", SP, "b">>, ext, NoConfig, AnyOf(InlineTokens, MaxInlineTokens)) :
        ext \in {".md", ".rst", ".html"}}

NextInline ==
    \/ pc = "idle" /\ \E in \in InlineInputs : StartPass(in)
    \/ Iterate
    \/ Finish

SpecInline == Init /\ [][NextInline]_vars

(***************************************************************************)
(* C5                                                                      *)
(***************************************************************************)
InlineScoped(tag) ==
    tag \in DOMAIN tagToScope /\ StringInSlice(tag, inlineTags)

\* The latest iteration took a text token whose activeTag is an inline tag
\* with a scope.
DoubleCase ==
    /\ pc = "loop"
    /\ last.type = TextToken
    /\ InlineScoped(last.w.activeTag)

\* The iteration handed exactly one Block to the sink: the fragment alone,
\* under the scope of the inline tag.
ImmediateBlock ==
    /\ Len(last.blocks) = 1
    /\ last.blocks[1].text = last.txt
    /\ last.blocks[1].scope = tagToScope[last.w.activeTag]

\* What the iteration added to the paragraph buffer.
Folded == Slice(loc.buf, Len(last.l.buf), Len(loc.buf))

Padded(t) == {t, <<SP>> \o t}

C5_ImmediateAndFolded ==
    (DoubleCase /\ ~last.l.inBlock /\ last.txt # <<>>) =>
        /\ ImmediateBlock
        /\ Folded \in Padded(IF StringInSlice(last.w.activeTag, last.l.skipped)
                             THEN codify(f.NormedExt, MaskOf(last.txt, "*"))
                             ELSE last.txt)

\* C5, amended (2): the Block of a block-level end tag holds the paragraph
\* buffer, which is empty afterwards.
C5_BoundaryHoldsBuffer ==
    BoundaryEmitted =>
        /\ last.blocks[1].text \in {last.l.buf, TrimLeft(last.l.buf)}
        /\ loc.buf = <<>>

\* C5, amended (3): up to a block-level end tag, what is in the paragraph
\* buffer stays in it.
C5_BufferKept ==
    [][(pc' = "loop" /\ ~AtBoundary') =>
          Slice(loc'.buf, 0, Len(loc.buf)) = loc.buf]_vars

InsideSkipContent ==
    \E k \in 1..Len(last.within) : StringInSlice(last.within[k], last.l.skipped)

\* C7: the text of a text token inside a skip-content tag is folded into
\* the paragraph buffer as the mask character repeated to the length of the
\* text, within the inline-code delimiter of the format, never as it is.
C7_MaskedNeverLiteral ==
    (pc = "loop" /\ last.type = TextToken /\ InsideSkipContent /\ Folded # <<>>) =>
        Folded \in Padded(codify(f.NormedExt, MaskOf(last.txt, "*")))

(***************************************************************************)
(* Skip tags: every input of up to MaxSkipTokens tokens drawn from the     *)
(* start and end tags of a pre block, the start tags of a code span and of *)
(* an image with an alt text, a text and the end tag of a paragraph.       *)
(***************************************************************************)
MaxSkipTokens == 5

SkipTokens ==
    {StartTag("pre", <<>>), StartTag("code", <<>>),
     StartTag("img", <<Attr("alt", <<"b">>)>>),
     Text(<<"b">>), EndTag("pre"), EndTag("p")}

SkipInputs ==
    {Input(<<"b", SP, "b">>, ".md", NoConfig, AnyOf(SkipTokens, MaxSkipTokens))}

NextSkip ==
    \/ pc = "idle" /\ \E in \in SkipInputs : StartPass(in)
    \/ Iterate
    \/ Finish

SpecSkip == Init /\ [][NextSkip]_vars

(***************************************************************************)
(* C6                                                                      *)
(***************************************************************************)
\* The token of the latest iteration lies inside an element whose tag is a
\* skip-tag: after its start tag, up to its matching end tag.
InsideSkipTag ==
    \E k \in 1..Len(last.within) : StringInSlice(last.within[k], skipTags)

\* The Blocks the latest iteration made of its own token: of its text under
\* the scope of an inline tag, or of its alt attribute.
TokenBlocks ==
    SelectSeq(last.blocks,
              LAMBDA b : \/ b.scope = "text.attr.alt"
                         \/ \E t \in DOMAIN tagToScope :
                              InlineScoped(t) /\ b.scope = tagToScope[t])

\* C6: for a token inside a skip-tag element no Block is handed to the
\* sink, and nothing is added to the paragraph buffer.
C6_NothingLinted ==
    (pc = "loop" /\ InsideSkipTag) =>
        /\ TokenBlocks = <<>>
        /\ last.type = TextToken => loc.buf = last.l.buf

\* The part of C6 the code keeps while its flag is set: the text of a token
\* inside a skip-tag element is not added to the paragraph buffer.
C6_NothingFolded ==
    (pc = "loop" /\ last.l.inBlock /\ last.type = TextToken) =>
        loc.buf = last.l.buf

(***************************************************************************)
(* Passes: up to MaxPasses passes in one process, each with a              *)
(* configuration of its own and any input of up to MaxPassTokens tokens    *)
(* drawn from a div, a span of class x, a text and the end tag of the div. *)
(***************************************************************************)
MaxPassTokens == 3

PassConfigs ==
    {NoConfig,
     [NoConfig EXCEPT !.SkippedScopes = <<"div">>],
     [NoConfig EXCEPT !.IgnoredClasses = <<"x">>],
     [NoConfig EXCEPT !.IgnoredScopes = <<"span">>]}

PassTokens ==
    {StartTag("div", <<>>), StartTag("span", <<Attr("class", <<"x">>)>>),
     Text(<<"b">>), EndTag("div")}

PassInputs ==
    {Input(<<"b">>, ".md", c, AnyOf(PassTokens, MaxPassTokens)) : c \in PassConfigs}

NextPasses ==
    \/ \E in \in PassInputs : StartPass(in)
    \/ Iterate
    \/ Finish

SpecPasses == Init /\ [][NextPasses]_vars

(***************************************************************************)
(* C10                                                                     *)
(***************************************************************************)
\* The tables a pass has from its own configuration and the defaults.
OwnSkipTags(c) ==
    IF Len(c.SkippedScopes) > 0 THEN c.SkippedScopes ELSE DefaultSkipTags

OwnSkipClasses(c) == DefaultSkipClasses \o c.IgnoredClasses

InPass == pc \in {"loop", "done"}

\* The tables the pass uses are those of its own configuration.
C10_OwnTables ==
    InPass => /\ skipTags = OwnSkipTags(cfg)
              /\ skipClasses = OwnSkipClasses(cfg)

\* Every iteration does, and hands to the sink, what it does with the tables
\* of the pass's own configuration.
C10_OwnOutput ==
    (pc = "loop" /\ last.type # NoToken.type) =>
        LET r == iterate(OwnSkipTags(cfg), OwnSkipClasses(cfg), last.l, last.w, f,
                         [type |-> last.type, data |-> last.data, attr |-> last.attr])
        IN  /\ last.blocks = r.blocks
            /\ loc = r.l
            /\ walker = r.w

\* C10: no state persists between passes: whatever passes ran before, a
\* pass uses the skip-tag and skip-class tables of its own configuration,
\* and its Blocks are those its own inputs give.
C10_NoStatePersists == C10_OwnTables /\ C10_OwnOutput

\* Never does a second pass, without a configuration, leave the text of
\* <div>b</div> out because the pass before it had div as a skipped scope.
C10_StaleSkipTag ==
    ~ /\ npass = 2
      /\ pc = "loop"
      /\ cfg = NoConfig
      /\ skipTags = <<"div">>
      /\ last.type = EndTagToken /\ last.data = "div"
      /\ last.within = <<"div">>
      /\ last.w.queue = << <<"b">> >>
      /\ last.blocks = <<>>

(***************************************************************************)
(* C12                                                                     *)
(***************************************************************************)
\* C12: at a block-level end tag over an empty or blank paragraph buffer no
\* Block is handed to the sink, and the queue and the tag history of the
\* walker and the buffer are reset all the same; no Block of a block-level
\* end tag has blank text.
C12_BlankBufferSkipped ==
    AtBoundary =>
        /\ TrimSpace(last.l.buf) = <<>> => last.blocks = <<>>
        /\ walker.queue = <<>> /\ walker.tagHistory = <<>> /\ loc.buf = <<>>
        /\ \A k \in 1..Len(last.blocks) : TrimSpace(last.blocks[k].text) # <<>>

\* A block-level end tag over an empty buffer, with a fragment in the queue
\* and a tag in the history: text inside a pre block.
C12_Witness ==
    /\ AtBoundary
    /\ last.l.buf = <<>>
    /\ last.w.queue # <<>>
    /\ last.w.tagHistory # <<>>
    /\ last.blocks = <<>>

(***************************************************************************)
(* C13                                                                     *)
(***************************************************************************)
\* In every state of the walker: append pushes a non-empty fragment, found
\* or not, and does nothing with the empty one; the Block of the latest
\* block call whose text advance does not find carries the cursor.
C13_PushedAndCursorLine ==
    pc = "walker" =>
        /\ \A t \in Fragments :
             IF t = <<>> THEN append(walker, t) = walker
             ELSE append(walker, t).queue = Append(walker.queue, t)
        /\ (sink # <<>> /\ advance(walker, sink[1].text) = -1) =>
               sink[1].line = walker.idx

\* A step that pushes a fragment advance does not find leaves the cursor.
C13_UnfoundKeepsCursor ==
    [][\A t \in Fragments :
          (pc = "walker" /\ walker'.queue = Append(walker.queue, t)
              /\ advance(walker, t) = -1) => walker'.idx = walker.idx]_vars

\* C13: append of a non-empty fragment that advance does not find leaves
\* the line cursor as it is and still pushes the fragment onto the queue;
\* append of the empty fragment changes neither; a Block built by block
\* when advance does not find its text carries the current cursor as line.
C13_UnfoundTolerated == [](C13_PushedAndCursorLine) /\ C13_UnfoundKeepsCursor

\* A fragment pushed when nothing of it was left in the context, with the
\* cursor off the first line.
C13_Witness ==
    /\ pc = "walker"
    /\ walker.idx = 1
    /\ walker.queue = << <<"b">> >>
    /\ Index(walker.context, <<"b">>) = -1

\* A Block whose text is not found, carrying a cursor off the first line.
C13_WitnessBlock ==
    /\ pc = "walker"
    /\ sink # <<>>
    /\ advance(walker, sink[1].text) = -1
    /\ walker.idx = 1
    /\ sink[1].line = 1

(***************************************************************************)
(* C14                                                                     *)
(***************************************************************************)
\* The positions of the line breaks of s.
Breaks(s) == {k \in 1..Len(s) : s[k] = NL}

\* C14: after any sequence of reset and replaceToks calls (and of the other
\* calls on the walker) the context has the length of the document and its
\* line breaks at the same positions, so that every position is on the
\* line it was on.
C14_ShapePreserved ==
    pc = "walker" =>
        /\ Len(walker.context) = Len(f.Content)
        /\ Breaks(walker.context) = Breaks(f.Content)
        /\ \A p \in 0..Len(f.Content) :
             LineOf(walker.context, p) = LineOf(f.Content, p)

\* A two-line document of which reset has overwritten text on both lines.
C14_Witness ==
    /\ pc = "walker"
    /\ Breaks(f.Content) # {}
    /\ walker.context # f.Content
    /\ \E p \in Occurrences(walker.context, <<"@">>) :
          LineOf(walker.context, p) = 1
    /\ \E p \in Occurrences(walker.context, <<"@">>) :
          LineOf(walker.context, p) = 0

IsPrefix(s, t) == Len(s) <= Len(t) /\ SubSeq(t, 1, Len(s)) = s

\* At the start of a pass and right after a block-level end tag the tag
\* history, the queue and the buffer are empty; text is in the buffer only
\* if it is in the queue.
C15_EmptiedAtBoundary ==
    pc = "loop" =>
        /\ (AtBoundary \/ last.type = NoToken.type) =>
              walker.tagHistory = <<>> /\ walker.queue = <<>> /\ loc.buf = <<>>
        /\ loc.buf # <<>> => walker.queue # <<>>

\* Between two block-level end tags the three only grow.
C15_GrowBetweenBoundaries ==
    [][(pc = "loop" /\ pc' = "loop" /\ ~AtBoundary') =>
          /\ IsPrefix(walker.tagHistory, walker'.tagHistory)
          /\ IsPrefix(walker.queue, walker'.queue)
          /\ IsPrefix(loc.buf, loc'.buf)]_vars

SkipTagStart ==
    pc = "loop" /\ last.type = StartTagToken /\ StringInSlice(last.txt, skipTags)

C16_ModeAfterToken ==
    pc = "loop" =>
        loc.inBlock =
            IF SkipTagStart THEN TRUE
            ELSE IF last.l.inBlock /\ TxtInSlice(last, last.txt, skipTags) THEN FALSE
            ELSE last.l.inBlock

\* Two consecutive skip-tag start tags leave the loop suppressed.
C16_TwoStartTags ==
    [][(SkipTagStart /\ SkipTagStart') => loc'.inBlock]_vars

MaxClassTokens == 4

ClassTokens ==
    {StartTag("span", <<Attr("class", <<"pre">>)>>), StartTag("b", <<>>),
     Text(<<"b">>), EndTag("span"), EndTag("b"), EndTag("p")}

ClassInputs ==
    {Input(<<"b", SP, "b">>, ext, NoConfig, AnyOf(ClassTokens, MaxClassTokens)) :
        ext \in {".md", ".html"}}

NextClass ==
    \/ pc = "idle" /\ \E in \in ClassInputs : StartPass(in)
    \/ Iterate
    \/ Finish

SpecClass == Init /\ [][NextClass]_vars

(***************************************************************************)
(* C17                                                                     *)
(***************************************************************************)
\* The token of the latest iteration lies inside an element whose class is
\* a skip class: among ClassTokens, inside a span.
InsideSkipClass ==
    /\ checkClasses(<<"pre">>, skipClasses)
    /\ \E k \in 1..Len(last.within) : last.within[k] = "span"

\* C17: the text of a text token inside an element of a skip class is
\* folded into the paragraph buffer masked, never as it is, also when it is
\* nested in a child element or follows other tokens of the element.
C17_MaskedInsideClass ==
    (pc = "loop" /\ last.type = TextToken /\ InsideSkipClass /\ Folded # <<>>) =>
        Folded \in Padded(codify(f.NormedExt, MaskOf(last.txt, "*")))

\* What the code keeps: a text that follows at once a token whose class
\* attribute holds a skip class is folded masked.
C17_MaskedRightAfterClass ==
    (pc = "loop" /\ last.type = TextToken /\ Folded # <<>>
        /\ checkClasses(last.l.attr, skipClasses)) =>
        Folded \in Padded(codify(f.NormedExt, MaskOf(last.txt, "*")))

\* The text of the b element of <span class="pre"><b>b</b></span>.
C17_NestedText ==
    /\ pc = "loop" /\ last.type = TextToken /\ InsideSkipClass
    /\ last.within = <<"span", "b">>
    /\ Folded = <<SP, "b">>

(***************************************************************************)
(* Lines: documents of two and three lines, and every input of up to       *)
(* MaxLineTokens tokens drawn from the texts of the lines, images whose    *)
(* alt text is one of the lines, and the end tag of a paragraph.           *)
(***************************************************************************)
MaxLineTokens == 4

LineDocs == {<<"a", NL, "b">>, <<"a", NL, "b", NL, "a">>}

LineTokens ==
    {Text(<<"a">>), Text(<<"b">>),
     StartTag("img", <<Attr("alt", <<"a">>)>>),
     StartTag("img", <<Attr("alt", <<"b">>)>>),
     EndTag("p")}

LineInputs ==
    {Input(d, ".md", NoConfig, AnyOf(LineTokens, MaxLineTokens)) : d \in LineDocs}

NextLines ==
    \/ pc = "idle" /\ \E in \in LineInputs : StartPass(in)
    \/ Iterate
    \/ Finish

SpecLines == Init /\ [][NextLines]_vars

(***************************************************************************)
(* C18                                                                     *)
(***************************************************************************)
\* C18 as stated: over a pass, no Block built by walker.block reports a
\* line smaller than that of a Block emitted before it.
C18_LinesNonDecreasing ==
    \A j, k \in 1..Len(ElementBlocks) :
        j < k => ElementBlocks[j].line <= ElementBlocks[k].line

\* No Block of an iteration reports a line below the cursor's, before or
\* after the iteration.
C18_NotBelowCursor ==
    pc = "loop" =>
        \A k \in 1..Len(last.blocks) :
            last.blocks[k].line >= walker.idx /\ last.blocks[k].line >= last.w.idx

C18_CursorNeverBack ==
    [][(pc = "loop" /\ pc' = "loop") => walker'.idx >= walker.idx]_vars

\* C18, amended: a Block built by walker.block never reports a line
\* smaller than the cursor at the time it is emitted, and the cursor never
\* moves back; the lines of the Blocks themselves are not ordered, since a
\* line beyond the cursor is reported without being stored.
C18_AtLeastCursor == [](C18_NotBelowCursor) /\ C18_CursorNeverBack

\* An image Block on a line beyond the cursor, emitted with the cursor left
\* where it was.
C18_Witness ==
    /\ pc = "loop" /\ last.data = "img"
    /\ Len(last.blocks) = 1 /\ last.blocks[1].line > walker.idx
    /\ walker.idx = last.w.idx

\* A boundary Block on a line smaller than the image Block before it.
C18_WitnessBack ==
    /\ AtBoundary /\ Len(sink) = 2 /\ last.blocks = <<sink[2]>>
    /\ sink[1].scope = "text.attr.alt" /\ sink[1].line = 1
    /\ sink[2].line = 0

(***************************************************************************)
(* C19                                                                     *)
(***************************************************************************)
\* C19: a non-empty text that lies in no skip-content element and follows
\* no skip class is folded into the paragraph buffer as it is (after one
\* space, inside an inline element): the mask-next-text flag set by an
\* earlier element does not reach it.
C19_NoLeak ==
    (/\ pc = "loop" /\ last.type = TextToken /\ Folded # <<>>
     /\ ~InsideSkipContent
     /\ ~checkClasses(last.l.attr, skipClasses)) =>
        Folded \in Padded(last.txt)

\* The text after <code></code>, masked by the flag the start tag of the
\* empty element has set.
C19_LeakAfterEmpty ==
    /\ pc = "loop" /\ last.type = TextToken /\ last.within = <<>>
    /\ last.l.skip /\ ~loc.skip
    /\ f.NormedExt = ".md"
    /\ Folded = <<SP>> \o codify(".md", <<"*">>)

(***************************************************************************)
(* C20                                                                     *)
(***************************************************************************)
\* C20: when the pass has ended no text is left in the paragraph buffer:
\* what was folded into it has been emitted in a boundary Block, before the
\* summary and the raw Block.
C20_AllTextEmitted ==
    pc = "done" => loc.buf = <<>> /\ walker.queue = <<>>

\* The input <p>a</p>b: the pass ends with the text b in the buffer, after
\* the one boundary Block of the paragraph.
C20_TrailingTextLost ==
    /\ pc = "done"
    /\ Len(sink) = 3 /\ sink[1].text = <<"a">>
    /\ last.within = <<>>
    /\ loc.buf = <<"b">> /\ walker.queue = <<<<"b">>>>

(***************************************************************************)
(* Concurrent passes: one pass of the process as above, and the calls of   *)
(* lintHTMLTokens other callers make for other documents while it runs.    *)
(* Such a call has locals, a walker and a file of its own; what it shares  *)
(* with the pass is the package variables, which its first statements      *)
(* assign.  Each configuration of PassConfigs sets one table at most, so   *)
(* the two assignments of one call are one step.  The assignments are not  *)
(* synchronised with the reads of the pass: the pass reads, at every       *)
(* iteration, either the value before or the value after.                  *)
(***************************************************************************)
\* The length the appends of the other calls let skipClasses reach.
MaxClasses == 4

\* The statements of another call of lintHTMLTokens, with configuration c,
\* that assign the package variables.
OtherPrologue(c) ==
    /\ Len(skipClasses) + Len(c.IgnoredClasses) <= MaxClasses
    /\ skipTags' = IF Len(c.SkippedScopes) > 0 THEN c.SkippedScopes ELSE skipTags
    /\ skipClasses' = IF Len(c.IgnoredClasses) > 0
                      THEN skipClasses \o c.IgnoredClasses ELSE skipClasses
    /\ UNCHANGED <<pc, f, cfg, z, loc, walker, sink, last, npass, consumed>>

NextConcurrent ==
    \/ pc = "idle" /\ \E in \in PassInputs : StartPass(in)
    \/ Iterate
    \/ Finish
    \/ \E c \in PassConfigs : OtherPrologue(c)

SpecConcurrent == Init /\ [][NextConcurrent]_vars

(***************************************************************************)
(* C11                                                                     *)
(***************************************************************************)
\* C11: while a pass runs, from its first iteration to its end, no other
\* pass writes the skip-tag and skip-class tables it reads.
C11_TablesNotWritten ==
    [][(pc = "loop" /\ pc' \in {"loop", "done"}) =>
          (skipTags' = skipTags /\ skipClasses' = skipClasses)]_vars

\* A pass without a configuration of its own that leaves the text of
\* <div>b</div> out: another call has made div a skip-tag after the pass
\* had started.
C11_WrittenWhileRunning ==
    /\ npass = 1 /\ pc = "loop" /\ cfg = NoConfig
    /\ skipTags = <<"div">>
    /\ last.type = EndTagToken /\ last.data = "div"
    /\ last.within = <<"div">>
    /\ last.w.queue = << <<"b">> >>
    /\ last.blocks = <<>>

(***************************************************************************)
(* Skip-tag names as content: every input of up to MaxNameTokens tokens    *)
(* drawn from the start and end tags of a pre block, a text and a comment  *)
(* that are the word pre, another text, and the end tag of a paragraph.    *)
(***************************************************************************)
MaxNameTokens == 4

NameTokens ==
    {StartTag("pre", <<>>), EndTag("pre"), EndTag("p"),
     Text(Chars("pre")), Comment(Chars("pre")), Text(<<"b">>)}

NameInputs ==
    {Input(Chars("pre") \o <<SP, "b">>, ".md", NoConfig,
           AnyOf(NameTokens, MaxNameTokens))}

NextNames ==
    \/ pc = "idle" /\ \E in \in NameInputs : StartPass(in)
    \/ Iterate
    \/ Finish

SpecNames == Init /\ [][NextNames]_vars

(***************************************************************************)
(* C21                                                                     *)
(***************************************************************************)
\* C21: the suppressed mode is left only at a tag token whose name is a
\* skip-tag; a text or a comment inside a suppressed block leaves the loop
\* suppressed, whatever its content, and the text that follows it in the
\* same element is kept out of the paragraph buffer.
C21_OnlyTagLeaves ==
    pc = "loop" =>
        /\ (last.l.inBlock /\ ~loc.inBlock) =>
              IF IsTag(last) THEN StringInSlice(last.txt, skipTags) ELSE FALSE
        /\ (last.type = TextToken /\ InsideSkipTag) => loc.buf = last.l.buf

\* The text pre inside <pre>: it ends the suppressed mode and is itself
\* neither queued nor folded.
C21_TextLeaves ==
    /\ pc = "loop" /\ last.type = TextToken /\ last.txt = Chars("pre")
    /\ last.within = <<"pre">>
    /\ last.l.inBlock /\ ~loc.inBlock
    /\ walker.queue = last.w.queue /\ loc.buf = last.l.buf

\* The comment pre inside <pre> ends the suppressed mode as well.
C21_CommentLeaves ==
    /\ pc = "loop" /\ last.type = CommentToken /\ last.within = <<"pre">>
    /\ last.l.inBlock /\ ~loc.inBlock

\* The text b of <pre>pre b ... </pre>, folded into the buffer.
C21_FoldedInsidePre ==
    /\ pc = "loop" /\ last.type = TextToken /\ last.txt = <<"b">>
    /\ last.within = <<"pre">>
    /\ loc.buf = last.l.buf \o <<"b">>

====
